---- MODULE Spec2Model ----
(***************************************************************************)
(* The watch-queue-worker reconciliation loop of src/utils/watch.go:       *)
(* an informer feeds add/update/delete notifications to three handlers,    *)
(* the handlers enqueue identity keys on a rate-limited work queue, and    *)
(* the workers started by Controller.Run drain that queue through          *)
(* processNextItem / syncToStdout / handleErr.                             *)
(*                                                                         *)
(* The work queue, the indexer and the informer are the client-go types    *)
(* the file imports; their bodies are not in src/.  They are modelled here *)
(* after the contract the specification gives for them (sections 4.1, 4.3) *)
(* and the code of watch.go is modelled line by line on top of them.       *)
(***************************************************************************)
EXTENDS Integers, Sequences, FiniteSets, TLC

(* ------------------------------ bounds -------------------------------- *)

\* notifications the informer delivers in one behaviour
MaxNotif == 2

\* worker goroutines started by Run (threadiness)
NWorkers == 2

(* --------------------------- program constants ------------------------ *)

\* handleErr: "if c.queue.NumRequeues(key) < 5"
MaxRetries == 5

CreateEvent == "CREATE"
UpdateEvent == "UPDATE"
DeleteEvent == "DELETE"

(* ------------------------------ universe ------------------------------ *)

Workers == 1..NWorkers

Namespaces == {"ns"}
Names == {"foo", "bar"}
\* the payloads <<Source, Reason, Message>> an object is given: between two
\* of them both tracked fields differ, or one of them, or only the message
Payloads == {<<"s1", "r1", "m1">>, <<"s2", "r2", "m2">>,
             <<"s1", "r2", "m1">>, <<"s1", "r1", "m2">>}

\* a watched object (*v1.Event); rv is the number of the notification that
\* wrote this snapshot (its resource version)
Object(ns, name, src, rsn, msg, rv) ==
    [Namespace |-> ns, Name |-> name, Kind |-> "Event",
     Source |-> src, Reason |-> rsn, Message |-> msg, rv |-> rv]

\* cache.DeletedFinalStateUnknown{Key, Obj}: what a delete notification
\* carries when the deletion itself was missed and found on a re-list
Tombstone(key, obj) == [Key |-> key, Obj |-> obj]

IsTombstone(o) == "Key" \in DOMAIN o

VARIABLES
    cache,        \* indexer: present keys -> last observed object
    seq,          \* notifications delivered so far
    infPc,        \* informer: "idle" | "handler" (store updated, handler due)
    delta,        \* the notification being, or last, dispatched
    newEvent,     \* the Event struct shared by the three handlers
    crashed,      \* a panic escaped a goroutine: the process is gone
    queue,        \* work queue: keys in delivery order
    dirty,        \* work queue: keys that need processing
    processing,   \* work queue: keys handed out by Get and not yet Done
    shuttingDown, \* work queue: ShutDown was called
    failures,     \* rate limiter: key -> requeues since the last Forget
    waiting,      \* delaying queue: keys whose backoff timer is running
    stopClosed,   \* stopCh is closed
    pc,           \* worker -> position in wait.Until/processNextItem,
                  \*   "off" for a worker Run did not start
    wkey,         \* worker -> key returned by Get
    werr,         \* worker -> syncToStdout returned an error
    sink,         \* the lines written to the file c.f
    errorSink,    \* calls of runtime.HandleError
    cacheVer,     \* history: key -> number of the last notification stored
    enqVer,       \* history: key -> number of the last notification enqueued
    attempts,     \* history: key -> failed syncs since its last success/drop
    disturbed,    \* history: key -> its retry run saw another enqueue
    pendingAdds,  \* history: key -> handler enqueues since its last Get
    lateGet,      \* history: worker -> its key was handed out after ShutDown
    path          \* history: worker -> the branch its syncToStdout took

vars == <<cache, seq, infPc, delta, newEvent, crashed, queue, dirty,
          processing, shuttingDown, failures, waiting, stopClosed, pc, wkey,
          werr, sink, errorSink, cacheVer, enqVer, attempts, disturbed,
          pendingAdds, lateGet, path>>

informerVars == <<cache, seq, infPc, delta, cacheVer>>
queueVars == <<queue, dirty, processing>>
limiterVars == <<failures, waiting>>
workerVars == <<pc, wkey, werr, lateGet, path>>

(* --------------------------- key functions ---------------------------- *)

\* cache.MetaNamespaceKeyFunc: <namespace>/<name>, or <name> alone for an
\* object without namespace; an error for a value without object metadata
MetaNamespaceKeyFunc(obj) ==
    IF IsTombstone(obj)
    THEN [key |-> "", err |-> TRUE]
    ELSE IF obj.Namespace # ""
         THEN [key |-> obj.Namespace \o "/" \o obj.Name, err |-> FALSE]
         ELSE [key |-> obj.Name, err |-> FALSE]

\* cache.DeletionHandlingMetaNamespaceKeyFunc: the tombstone's recorded key,
\* else MetaNamespaceKeyFunc
DeletionHandlingMetaNamespaceKeyFunc(obj) ==
    IF IsTombstone(obj)
    THEN [key |-> obj.Key, err |-> FALSE]
    ELSE MetaNamespaceKeyFunc(obj)

Keys == {MetaNamespaceKeyFunc(Object(ns, n, "s1", "r1", "m1", 0)).key :
            ns \in Namespaces, n \in Names}

(* ----------------------------- work queue ----------------------------- *)

Count(s, k) == Cardinality({i \in 1..Len(s) : s[i] = k})

\* queue.Add that appends a key although it is already dirty
QueueAddNoDedup(k) ==
    IF shuttingDown
    THEN UNCHANGED <<queue, dirty>>
    ELSE /\ dirty' = dirty \cup {k}
         /\ queue' = IF k \in processing THEN queue ELSE Append(queue, k)

\* queue.Add: dropped while shutting down; a key already dirty is not added
\* again; a key being processed is only marked dirty
QueueAdd(k) ==
    IF shuttingDown \/ k \in dirty
    THEN UNCHANGED <<queue, dirty>>
    ELSE /\ dirty' = dirty \cup {k}
         /\ queue' = IF k \in processing THEN queue ELSE Append(queue, k)

\* queue.Get returning the head of the queue: the key moves to processing
\* and is no longer dirty
QueueGet ==
    /\ queue' = Tail(queue)
    /\ processing' = processing \cup {Head(queue)}
    /\ dirty' = dirty \ {Head(queue)}

\* queue.Done: release the key; queue it if it became dirty meanwhile
QueueDone(k) ==
    /\ processing' = processing \ {k}
    /\ queue' = IF k \in dirty THEN Append(queue, k) ELSE queue
    /\ UNCHANGED dirty

\* queue.NumRequeues
NumRequeues(k) == failures[k]

\* queue.Forget
Forget(k) ==
    /\ failures' = [failures EXCEPT ![k] = 0]
    /\ UNCHANGED waiting

\* queue.AddRateLimited: AddAfter(key, rateLimiter.When(key)); When counts
\* the requeue, AddAfter starts the timer unless the queue is shutting down
AddRateLimited(k) ==
    /\ failures' = [failures EXCEPT ![k] = @ + 1]
    /\ waiting' = IF shuttingDown THEN waiting ELSE waiting \cup {k}

(* ------------------------------- Init --------------------------------- *)

Init ==
    /\ cache = << >>
    /\ seq = 0
    /\ infPc = "idle"
    /\ delta = [type |-> "NONE"]
    /\ newEvent = [Type |-> "", Obj |-> << >>, Key |-> ""]
    /\ crashed = FALSE
    /\ queue = << >>
    /\ dirty = {}
    /\ processing = {}
    /\ shuttingDown = FALSE
    /\ failures = [k \in Keys |-> 0]
    /\ waiting = {}
    /\ stopClosed = FALSE
    /\ \E threadiness \in Workers :
          pc = [w \in Workers |-> IF w <= threadiness THEN "until" ELSE "off"]
    /\ wkey = [w \in Workers |-> ""]
    /\ werr = [w \in Workers |-> FALSE]
    /\ sink = << >>
    /\ errorSink = 0
    /\ cacheVer = [k \in Keys |-> 0]
    /\ enqVer = [k \in Keys |-> 0]
    /\ attempts = [k \in Keys |-> 0]
    /\ disturbed = [k \in Keys |-> FALSE]
    /\ pendingAdds = [k \in Keys |-> 0]
    /\ lateGet = [w \in Workers |-> FALSE]
    /\ path = [w \in Workers |-> "none"]

(* ------------------------------ informer ------------------------------ *)

\* indexer.Add / indexer.Update
CachePut(k, obj) ==
    cache' = [x \in DOMAIN cache \cup {k} |-> IF x = k THEN obj ELSE cache[x]]

\* indexer.Delete
CacheDelete(k) ==
    cache' = [x \in DOMAIN cache \ {k} |-> cache[x]]

\* indexer.GetByKey; ver is the number of the notification the answer
\* reflects (for an absent key, the delete that removed it)
GetByKey(k, fails) ==
    IF fails
    THEN [obj |-> << >>, exists |-> FALSE, err |-> TRUE, ver |-> 0]
    ELSE [obj |-> IF k \in DOMAIN cache THEN <<cache[k]>> ELSE << >>,
          exists |-> k \in DOMAIN cache, err |-> FALSE, ver |-> cacheVer[k]]

\* The informer takes the next notification off its stream and applies it to
\* the indexer; the matching handler is called next, on the same goroutine.
\* It stops taking notifications once stopCh is closed.
InformerStore ==
    /\ ~crashed /\ ~stopClosed
    /\ infPc = "idle"
    /\ seq < MaxNotif
    /\ \E ns \in Namespaces, name \in Names, p \in Payloads :
          LET obj == Object(ns, name, p[1], p[2], p[3], seq + 1)
              k == MetaNamespaceKeyFunc(obj).key
          IN \/ /\ k \notin DOMAIN cache
                /\ CachePut(k, obj)
                /\ delta' = [type |-> "ADD", n |-> seq + 1, obj |-> obj]
                /\ cacheVer' = [cacheVer EXCEPT ![k] = seq + 1]
             \/ /\ k \in DOMAIN cache
                /\ CachePut(k, obj)
                /\ delta' = [type |-> "UPDATE", n |-> seq + 1,
                             old |-> cache[k], obj |-> obj]
                /\ cacheVer' = [cacheVer EXCEPT ![k] = seq + 1]
    /\ seq' = seq + 1
    /\ infPc' = "handler"
    /\ UNCHANGED <<newEvent, crashed, queueVars, shuttingDown, limiterVars,
                   stopClosed, workerVars, sink, errorSink, enqVer, attempts,
                   disturbed, pendingAdds>>

\* A delete notification carries the object as last seen, or a tombstone when
\* the deletion was only found by a re-list.
InformerDelete ==
    /\ ~crashed /\ ~stopClosed
    /\ infPc = "idle"
    /\ seq < MaxNotif
    /\ \E k \in DOMAIN cache, tomb \in BOOLEAN :
          /\ CacheDelete(k)
          /\ delta' = [type |-> "DELETE", n |-> seq + 1,
                       obj |-> IF tomb THEN Tombstone(k, cache[k])
                               ELSE cache[k]]
          /\ cacheVer' = [cacheVer EXCEPT ![k] = seq + 1]
    /\ seq' = seq + 1
    /\ infPc' = "handler"
    /\ UNCHANGED <<newEvent, crashed, queueVars, shuttingDown, limiterVars,
                   stopClosed, workerVars, sink, errorSink, enqVer, attempts,
                   disturbed, pendingAdds>>

(* ------------------------------ handlers ------------------------------ *)

\* a handler's queue.Add(newEvent.Key), with the history it leaves
HandlerEnqueue(k) ==
    /\ QueueAdd(k)
    /\ enqVer' = [enqVer EXCEPT ![k] = delta.n]
    /\ disturbed' = [disturbed EXCEPT ![k] = TRUE]
    /\ pendingAdds' = [pendingAdds EXCEPT
                         ![k] = IF shuttingDown \/ @ >= 2 THEN @ ELSE @ + 1]

\* handlers that reset the retry counters of the keys
HandlerFrameResetsBackoff ==
    /\ failures' = [k \in Keys |-> 0]
    /\ UNCHANGED <<cache, seq, delta, cacheVer, processing, shuttingDown,
                   waiting, stopClosed, workerVars, sink, errorSink,
                   attempts>>

\* what every handler leaves alone
HandlerFrame ==
    UNCHANGED <<cache, seq, delta, cacheVer, processing, shuttingDown,
                limiterVars, stopClosed, workerVars, sink, errorSink,
                attempts>>

\* AddFunc
AddFunc ==
    /\ ~crashed
    /\ infPc = "handler" /\ delta.type = "ADD"
    /\ LET r == MetaNamespaceKeyFunc(delta.obj)
       IN /\ newEvent' = [Type |-> CreateEvent, Obj |-> <<delta.obj>>,
                          Key |-> r.key]
          /\ IF ~r.err
             THEN HandlerEnqueue(r.key)
             ELSE UNCHANGED <<queue, dirty, enqVer, disturbed, pendingAdds>>
    /\ infPc' = "idle"
    /\ UNCHANGED crashed
    /\ HandlerFrame

\* UpdateFunc without a filter
UpdateAlways(old, new) == TRUE

\* UpdateFunc's filter asking for one of the two fields to differ
UpdateWantedEither(old, new) ==
    new.Source # old.Source \/ old.Reason # new.Reason

\* UpdateFunc's filter
UpdateWanted(old, new) ==
    new.Source # old.Source /\ old.Reason # new.Reason

\* UpdateFunc
UpdateFunc ==
    /\ ~crashed
    /\ infPc = "handler" /\ delta.type = "UPDATE"
    /\ IF UpdateWanted(delta.old, delta.obj)
       THEN LET r == MetaNamespaceKeyFunc(delta.old)
            IN /\ newEvent' = [Type |-> UpdateEvent, Obj |-> <<delta.obj>>,
                               Key |-> r.key]
               /\ IF ~r.err
                  THEN HandlerEnqueue(r.key)
                  ELSE UNCHANGED <<queue, dirty, enqVer, disturbed,
                                   pendingAdds>>
       ELSE UNCHANGED <<newEvent, queue, dirty, enqVer, disturbed,
                        pendingAdds>>
    /\ infPc' = "idle"
    /\ UNCHANGED crashed
    /\ HandlerFrame

\* DeleteFunc: "evt := obj.(*v1.Event)" comes first and panics on a tombstone
DeleteFunc ==
    /\ ~crashed
    /\ infPc = "handler" /\ delta.type = "DELETE"
    /\ IF IsTombstone(delta.obj)
       THEN /\ crashed' = TRUE
            /\ UNCHANGED <<newEvent, queue, dirty, enqVer, disturbed,
                           pendingAdds, infPc>>
       ELSE LET r == DeletionHandlingMetaNamespaceKeyFunc(delta.obj)
            IN /\ newEvent' = [Type |-> DeleteEvent, Obj |-> <<delta.obj>>,
                               Key |-> r.key]
               /\ IF ~r.err
                  THEN HandlerEnqueue(r.key)
                  ELSE UNCHANGED <<queue, dirty, enqVer, disturbed,
                                   pendingAdds>>
               /\ infPc' = "idle"
               /\ UNCHANGED crashed
    /\ HandlerFrame

(* ------------------------------- workers ------------------------------ *)

\* fmt.Sprintf("%s: %s/%s/%s/%s \n", Name, Namespace, Kind, Name, Message)
Sprintf(evt) ==
    evt.Name \o ": " \o evt.Namespace \o "/" \o evt.Kind \o "/" \o evt.Name
        \o "/" \o evt.Message \o " \n"

\* io.WriteString(c.f, msg): sink holds the strings that reached the file
\* whole; a write that fails adds none (the fragment it may leave is not
\* kept)
WriteOutcomes == {"ok", "fail"}

WriteString(f, msg, outcome) ==
    IF outcome = "ok" THEN Append(f, msg) ELSE f

\* syncToStdout printing the object of the last notification, not the cache's
SyncToStdoutFromEvent(key, got, outcome) ==
    IF got.err
    THEN [err |-> TRUE, f |-> sink]
    ELSE IF ~got.exists
         THEN [err |-> FALSE, f |-> sink]
         ELSE [err |-> FALSE,
               f |-> WriteString(sink,
                                 Sprintf(IF newEvent.Obj # << >>
                                         THEN newEvent.Obj[1]
                                         ELSE got.obj[1]), outcome)]

\* syncToStdout returning the error of a failed write
SyncToStdoutWriteErr(key, got, outcome) ==
    IF got.err
    THEN [err |-> TRUE, f |-> sink]
    ELSE IF ~got.exists
         THEN [err |-> FALSE, f |-> sink]
         ELSE [err |-> outcome # "ok",
               f |-> WriteString(sink, Sprintf(got.obj[1]), outcome)]

\* syncToStdout treating a failed lookup like an absent key
SyncToStdoutLookupErrAbsent(key, got, outcome) ==
    IF got.err \/ ~got.exists
    THEN [err |-> FALSE, f |-> sink]
    ELSE [err |-> FALSE,
          f |-> WriteString(sink, Sprintf(got.obj[1]), outcome)]

\* syncToStdout(key), given what GetByKey answered and how the write went:
\* the error it returns and the file it leaves
SyncToStdout(key, got, outcome) ==
    IF got.err
    THEN [err |-> TRUE, f |-> sink]
    ELSE IF ~got.exists
         THEN [err |-> FALSE, f |-> sink]
         ELSE [err |-> FALSE,
               f |-> WriteString(sink, Sprintf(got.obj[1]), outcome)]

\* the branch syncToStdout takes: the lookup failed, the key is not in the
\* cache, or the line was formatted and the write went well or failed
SyncPath(got, outcome) ==
    IF got.err THEN "lookupErr"
    ELSE IF ~got.exists THEN "notFound"
    ELSE IF outcome = "ok" THEN "wrote" ELSE "writeFailed"

\* the keys whose cache lookup can return an error
FailingKeys == {"ns/foo"}

LookupFailures(k) == IF k \in FailingKeys THEN BOOLEAN ELSE {FALSE}

\* a lookup that trusts the object the handlers saw last for this key
SyncLookupFromEvent(key, fails) ==
    IF ~fails /\ newEvent.Key = key /\ newEvent.Obj # << >>
    THEN [obj |-> newEvent.Obj, exists |-> TRUE, err |-> FALSE,
          ver |-> newEvent.Obj[1].rv]
    ELSE GetByKey(key, fails)

\* the cache lookup of syncToStdout
SyncLookup(key, fails) == GetByKey(key, fails)

\* handleErr with the ceiling test off by one (<= instead of <)
HandleErrOneMore(err, k) ==
    IF ~err
    THEN /\ Forget(k)
         /\ UNCHANGED <<errorSink, attempts>>
    ELSE IF NumRequeues(k) <= MaxRetries
         THEN /\ AddRateLimited(k)
              /\ UNCHANGED <<errorSink, attempts>>
         ELSE /\ Forget(k)
              /\ errorSink' = errorSink + 1
              /\ attempts' = [attempts EXCEPT ![k] = 0]

\* handleErr without the Forget on success
HandleErrNoForget(err, k) ==
    IF ~err
    THEN UNCHANGED <<failures, waiting, errorSink, attempts>>
    ELSE IF NumRequeues(k) < MaxRetries
         THEN /\ AddRateLimited(k)
              /\ UNCHANGED <<errorSink, attempts>>
         ELSE /\ Forget(k)
              /\ errorSink' = errorSink + 1
              /\ attempts' = [attempts EXCEPT ![k] = 0]

\* handleErr without the ceiling: every failure is requeued
HandleErrNoCeiling(err, k) ==
    IF ~err
    THEN /\ Forget(k)
         /\ UNCHANGED <<errorSink, attempts>>
    ELSE /\ AddRateLimited(k)
         /\ UNCHANGED <<errorSink, attempts>>

\* handleErr(err, key)
HandleErr(err, k) ==
    IF ~err
    THEN /\ Forget(k)
         /\ UNCHANGED <<errorSink, attempts>>
    ELSE IF NumRequeues(k) < MaxRetries
         THEN /\ AddRateLimited(k)
              /\ UNCHANGED <<errorSink, attempts>>
         ELSE /\ Forget(k)
              /\ errorSink' = errorSink + 1
              /\ attempts' = [attempts EXCEPT ![k] = 0]

\* wait.Until that does not look at stopCh
WorkerUntilRestart(w) ==
    /\ ~crashed
    /\ pc[w] = "until"
    /\ pc' = [pc EXCEPT ![w] = "get"]
    /\ UNCHANGED <<informerVars, newEvent, crashed, queueVars, shuttingDown,
                   limiterVars, stopClosed, wkey, werr, lateGet, path,
                   sink, errorSink, enqVer, attempts, disturbed,
                   pendingAdds>>

\* wait.Until(c.runWorker, time.Second, stopCh): run the worker loop again
\* unless stopCh is closed
WorkerUntil(w) ==
    /\ ~crashed
    /\ pc[w] = "until"
    /\ pc' = [pc EXCEPT ![w] = IF stopClosed THEN "stopped" ELSE "get"]
    /\ UNCHANGED <<informerVars, newEvent, crashed, queueVars, shuttingDown,
                   limiterVars, stopClosed, wkey, werr, lateGet, path,
                   sink, errorSink, enqVer, attempts, disturbed,
                   pendingAdds>>

\* history kept when Get hands out key k
Delivered(k) ==
    /\ pendingAdds' = [pendingAdds EXCEPT ![k] = 0]
    /\ disturbed' = [disturbed EXCEPT
                       ![k] = IF failures[k] = 0 THEN k \in waiting ELSE @]

\* processNextItem calling Done right after Get instead of deferring it
WorkerGetDoneNotDeferred(w) ==
    /\ ~crashed
    /\ pc[w] = "get"
    /\ queue # << >>
    /\ queue' = Tail(queue)
    /\ dirty' = dirty \ {Head(queue)}
    /\ processing' = processing \ {Head(queue)}
    /\ wkey' = [wkey EXCEPT ![w] = Head(queue)]
    /\ Delivered(Head(queue))
    /\ lateGet' = [lateGet EXCEPT ![w] = shuttingDown]
    /\ pc' = [pc EXCEPT ![w] = "sync"]
    /\ UNCHANGED <<informerVars, newEvent, crashed, shuttingDown,
                   limiterVars, stopClosed, werr, path, sink, errorSink,
                   enqVer, attempts>>

\* processNextItem: c.queue.Get() returns a key, Done is deferred.  Get hands
\* out queued keys also after ShutDown: it returns the shutdown indicator
\* only when the queue is empty (WorkerQuit).
WorkerGet(w) ==
    /\ ~crashed
    /\ pc[w] = "get"
    /\ queue # << >>
    /\ QueueGet
    /\ wkey' = [wkey EXCEPT ![w] = Head(queue)]
    /\ Delivered(Head(queue))
    /\ lateGet' = [lateGet EXCEPT ![w] = shuttingDown]
    /\ pc' = [pc EXCEPT ![w] = "sync"]
    /\ UNCHANGED <<informerVars, newEvent, crashed, shuttingDown,
                   limiterVars, stopClosed, werr, path, sink, errorSink,
                   enqVer, attempts>>

\* queue.Get returning the shutdown indicator: processNextItem returns false
\* and runWorker returns
WorkerQuit(w) ==
    /\ ~crashed
    /\ pc[w] = "get"
    /\ queue = << >> /\ shuttingDown
    /\ pc' = [pc EXCEPT ![w] = "until"]
    /\ UNCHANGED <<informerVars, newEvent, crashed, queueVars, shuttingDown,
                   limiterVars, stopClosed, wkey, werr, lateGet, path,
                   sink, errorSink, enqVer, attempts, disturbed,
                   pendingAdds>>

\* err := c.syncToStdout(newEvent.(string))
WorkerSync(w) ==
    /\ ~crashed
    /\ pc[w] = "sync"
    /\ \E fails \in LookupFailures(wkey[w]), outcome \in WriteOutcomes :
          LET got == SyncLookup(wkey[w], fails)
              r == SyncToStdout(wkey[w], got, outcome)
          IN /\ werr' = [werr EXCEPT ![w] = r.err]
             /\ sink' = r.f
             /\ path' = [path EXCEPT ![w] = SyncPath(got, outcome)]
             /\ attempts' = [attempts EXCEPT
                               ![wkey[w]] = IF r.err THEN @ + 1 ELSE 0]
    /\ pc' = [pc EXCEPT ![w] = "handleErr"]
    /\ UNCHANGED <<informerVars, newEvent, crashed, queueVars, shuttingDown,
                   limiterVars, stopClosed, wkey, lateGet, errorSink, enqVer,
                   disturbed, pendingAdds>>

\* processNextItem releasing the key before the outcome is recorded
WorkerHandleErrDoneFirst(w) ==
    /\ ~crashed
    /\ pc[w] = "handleErr"
    /\ QueueDone(wkey[w])
    /\ HandleErr(werr[w], wkey[w])
    /\ pc' = [pc EXCEPT ![w] = "done"]
    /\ UNCHANGED <<informerVars, newEvent, crashed, shuttingDown,
                   stopClosed, wkey, werr, lateGet, path, sink, enqVer,
                   disturbed, pendingAdds>>

\* c.handleErr(err, newEvent)
WorkerHandleErr(w) ==
    /\ ~crashed
    /\ pc[w] = "handleErr"
    /\ HandleErr(werr[w], wkey[w])
    /\ pc' = [pc EXCEPT ![w] = "done"]
    /\ UNCHANGED <<informerVars, newEvent, crashed, queueVars, shuttingDown,
                   stopClosed, wkey, werr, lateGet, path, sink, enqVer,
                   disturbed, pendingAdds>>

\* the deferred c.queue.Done(newEvent); processNextItem returns true and
\* runWorker calls it again
WorkerDone(w) ==
    /\ ~crashed
    /\ pc[w] = "done"
    /\ QueueDone(wkey[w])
    /\ pc' = [pc EXCEPT ![w] = "get"]
    /\ wkey' = [wkey EXCEPT ![w] = ""]
    /\ werr' = [werr EXCEPT ![w] = FALSE]
    /\ lateGet' = [lateGet EXCEPT ![w] = FALSE]
    /\ path' = [path EXCEPT ![w] = "none"]
    /\ UNCHANGED <<informerVars, newEvent, crashed, shuttingDown,
                   limiterVars, stopClosed, sink, errorSink, enqVer,
                   attempts, disturbed, pendingAdds>>

(* -------------------------- timers and shutdown ----------------------- *)

\* the delaying queue's timer for a key fires: the key is added
DelayedAdd ==
    /\ ~crashed /\ ~shuttingDown
    /\ \E k \in waiting :
          /\ waiting' = waiting \ {k}
          /\ QueueAdd(k)
    /\ UNCHANGED <<informerVars, newEvent, crashed, processing, shuttingDown,
                   failures, stopClosed, workerVars, sink, errorSink, enqVer,
                   attempts, disturbed, pendingAdds>>

\* the shutdown signal: stopCh is closed
CloseStop ==
    /\ ~crashed /\ ~stopClosed
    /\ stopClosed' = TRUE
    /\ UNCHANGED <<informerVars, newEvent, crashed, queueVars, shuttingDown,
                   limiterVars, workerVars, sink, errorSink, enqVer,
                   attempts, disturbed, pendingAdds>>

\* Run wakes from <-stopCh and returns: the deferred c.queue.ShutDown()
RunShutDown ==
    /\ ~crashed
    /\ stopClosed /\ ~shuttingDown
    /\ shuttingDown' = TRUE
    /\ UNCHANGED <<informerVars, newEvent, crashed, queueVars, limiterVars,
                   stopClosed, workerVars, sink, errorSink, enqVer, attempts,
                   disturbed, pendingAdds>>

(* ---------------------------- specification --------------------------- *)

Next ==
    \/ InformerStore
    \/ InformerDelete
    \/ AddFunc
    \/ UpdateFunc
    \/ DeleteFunc
    \/ \E w \in Workers : WorkerUntil(w)
    \/ \E w \in Workers : WorkerGet(w)
    \/ \E w \in Workers : WorkerQuit(w)
    \/ \E w \in Workers : WorkerSync(w)
    \/ \E w \in Workers : WorkerHandleErr(w)
    \/ \E w \in Workers : WorkerDone(w)
    \/ DelayedAdd
    \/ CloseStop
    \/ RunShutDown

Spec == Init /\ [][Next]_vars

\* what one worker goroutine can do next
WorkerStep(w) ==
    \/ WorkerUntil(w)
    \/ WorkerGet(w)
    \/ WorkerQuit(w)
    \/ WorkerSync(w)
    \/ WorkerHandleErr(w)
    \/ WorkerDone(w)

\* Every goroutine that can run does run: each worker, the informer calling
\* the handler of the notification it stored, the delaying queue's timer
\* loop and Run once stopCh is closed.  The arrival of notifications and of
\* the shutdown signal is up to the environment.
Fairness ==
    /\ \A w \in Workers : WF_vars(WorkerStep(w))
    /\ WF_vars(AddFunc \/ UpdateFunc \/ DeleteFunc)
    /\ WF_vars(DelayedAdd)
    /\ WF_vars(RunShutDown)

FairSpec == Spec /\ Fairness

(* ----------------------------- properties ----------------------------- *)

\* worker w is between Get returning a key and its Done
Holding(w) == pc[w] \in {"sync", "handleErr", "done"}

\* C1: at no instant do two workers hold the same key in processing, under
\* every interleaving of handler adds, delayed re-adds and worker steps.
AtMostOneInFlight ==
    \A w1 \in Workers, w2 \in Workers :
        (w1 # w2 /\ Holding(w1) /\ Holding(w2)) => wkey[w1] # wkey[w2]

\* a key was added again while a worker holds it, and an idle worker waits
\* beside an empty queue
ReAddedWhileHeld ==
    \E w1 \in Workers, w2 \in Workers :
        /\ Holding(w1) /\ wkey[w1] \in dirty
        /\ pc[w2] = "get" /\ queue = << >> /\ ~shuttingDown

\* C2: enqueues of a key before a Get returns it are merged: the queue never
\* holds a key twice, holds exactly the dirty keys no worker is processing,
\* and a key the handlers enqueued is waiting for exactly one delivery.
Dedup ==
    /\ \A k \in Keys : Count(queue, k) <= 1
    /\ {queue[i] : i \in 1..Len(queue)} = dirty \ processing
    /\ \A k \in Keys :
          pendingAdds[k] >= 1 =>
              /\ k \in dirty
              /\ k \notin processing => Count(queue, k) = 1

\* the handlers enqueued one key twice and no Get has returned it since
EnqueuedTwice ==
    \E k \in Keys : pendingAdds[k] = 2 /\ Count(queue, k) = 1

\* C3: a failed sync is requeued rate-limited on the first MaxRetries failures
\* in a row and dropped on the next one, the sixth delivery: the counter is
\* reset, the error is reported once, and unless another enqueue fell into
\* the run of retries the key is neither queued nor waiting afterwards.
RetryCeiling ==
    [][\A w \in Workers :
          (pc[w] = "handleErr" /\ pc'[w] = "done" /\ werr[w]) =>
              LET k == wkey[w]
              IN IF attempts[k] <= MaxRetries
                 THEN /\ failures'[k] = attempts[k]
                      /\ errorSink' = errorSink
                      /\ shuttingDown \/ k \in waiting'
                 ELSE /\ attempts[k] = MaxRetries + 1
                      /\ failures'[k] = 0
                      /\ errorSink' = errorSink + 1
                      /\ ~disturbed[k] =>
                            /\ k \notin waiting'
                            /\ k \notin dirty'
                            /\ Count(queue', k) = 0]_vars

\* a key was dropped after an undisturbed run of retries
RetryDropped ==
    \E w \in Workers :
        /\ pc[w] = "done" /\ werr[w]
        /\ failures[wkey[w]] = 0
        /\ ~disturbed[wkey[w]]
        /\ errorSink = 1

\* C4: after a successful sync the key's retry counter is 0, and the counter
\* never exceeds the failures since the key's last success, so failures
\* from before a success never count towards the ceiling.
ForgetResetsHistory ==
    /\ \A w \in Workers :
          (pc[w] = "done" /\ ~werr[w]) => failures[wkey[w]] = 0
    /\ \A k \in Keys :
          \/ failures[k] <= attempts[k]
          \/ \E w \in Workers :
                pc[w] = "handleErr" /\ wkey[w] = k /\ ~werr[w]

\* a success was forgotten while the timer of an earlier failure still runs
ForgotAfterFailure ==
    \E w \in Workers :
        /\ pc[w] = "done" /\ ~werr[w]
        /\ wkey[w] \in waiting
        /\ failures[wkey[w]] = 0

\* the informer's current step is the call of the handler on a delete
\* notification that carries a tombstone
TombstoneHandled ==
    /\ infPc = "handler" /\ delta.type = "DELETE" /\ IsTombstone(delta.obj)
    /\ infPc' = "idle" \/ crashed' # crashed

\* C5: the delete handler, given a tombstone, resolves the key the object had
\* while present and enqueues it.
TombstoneDeleteEnqueues ==
    [][TombstoneHandled =>
          /\ ~crashed'
          /\ newEvent'.Key = delta.obj.Key
          /\ newEvent'.Key = MetaNamespaceKeyFunc(delta.obj.Obj).key
          /\ delta.obj.Key \in dirty']_vars

\* C6: whenever a worker is about to read the cache in Sync, what the lookup
\* returns for its key is at least as new as the last notification whose
\* handler enqueued that key; workers run from the start, whether or not the
\* informer has delivered its initial listing.
CausalOrder ==
    \A w \in Workers :
        pc[w] = "sync" =>
            SyncLookup(wkey[w], FALSE).ver >= enqVer[wkey[w]]

\* a worker is about to sync a key whose cache entry is already newer than
\* the notification that enqueued it
SyncSeesNewerCache ==
    \E w \in Workers :
        /\ pc[w] = "sync"
        /\ enqVer[wkey[w]] >= 1
        /\ cacheVer[wkey[w]] > enqVer[wkey[w]]

NoLostReAddUnlessCrashed ==
    \A k \in Keys :
        (k \in dirty /\ k \in processing /\ ~stopClosed)
            ~> (k \notin dirty \/ stopClosed \/ crashed)

\* the bookkeeping and release a worker holding a key goes through
InFlightCompletes(w) ==
    LET k == wkey[w]
    IN /\ pc[w] = "sync" => pc'[w] = "handleErr"
       /\ pc[w] = "handleErr" =>
             /\ pc'[w] = "done"
             /\ IF werr[w]
                THEN \/ failures'[k] = failures[k] + 1
                     \/ failures'[k] = 0 /\ errorSink' = errorSink + 1
                ELSE failures'[k] = 0
       /\ pc[w] = "done" => pc'[w] = "get" /\ k \notin processing'

CacheLine(o) ==
    o.Name \o ": " \o o.Namespace \o "/" \o o.Kind \o "/" \o o.Name
        \o "/" \o o.Message \o " \n"

\* a worker's step is the Sync of a key that is in the cache
SyncsPresent(w) ==
    pc[w] = "sync" /\ pc'[w] = "handleErr" /\ wkey[w] \in DOMAIN cache

DeleteHandled ==
    /\ infPc = "handler" /\ delta.type = "DELETE"
    /\ infPc' = "idle" \/ crashed' # crashed

\* the key the deleted object had while it was present
DeletedKey == DeletionHandlingMetaNamespaceKeyFunc(delta.obj).key

\* a Sync that found its key absent writes nothing and succeeds, and
\* handleErr then forgets the key without requeueing it
NotFoundSyncSucceeds ==
    \A w \in Workers :
        /\ (pc[w] = "sync" /\ pc'[w] = "handleErr" /\ path'[w] = "notFound") =>
              sink' = sink /\ ~werr'[w]
        /\ (pc[w] = "handleErr" /\ pc'[w] = "done" /\ path[w] = "notFound") =>
              /\ failures'[wkey[w]] = 0
              /\ waiting' = waiting
              /\ errorSink' = errorSink

\* C11: the handler of a delete notification enqueues the key of the deleted
\* object (unless the queue is shutting down), and a Sync whose lookup
\* returns not-found writes no line, succeeds and has the key forgotten.
DeletedObjectSync ==
    [][/\ DeleteHandled =>
             /\ ~crashed'
             /\ shuttingDown \/ DeletedKey \in dirty'
       /\ NotFoundSyncSucceeds]_vars

\* the same, for the delete notifications that carry the object itself
DeletedObjectSyncUnlessTombstone ==
    [][/\ (DeleteHandled /\ ~IsTombstone(delta.obj)) =>
             /\ ~crashed'
             /\ shuttingDown \/ DeletedKey \in dirty'
       /\ NotFoundSyncSucceeds]_vars

\* the key of a deleted object was delivered again and its Sync found it
\* absent
DeletedKeySynced ==
    \E w \in Workers :
        /\ pc[w] = "done" /\ path[w] = "notFound"
        /\ delta.type = "DELETE" /\ ~IsTombstone(delta.obj)
        /\ wkey[w] = DeletedKey
        /\ enqVer[wkey[w]] = delta.n
        /\ failures[wkey[w]] = 0

LookupFailureRetried ==
    [][\A w \in Workers :
          /\ (pc[w] = "sync" /\ pc'[w] = "handleErr"
                 /\ path'[w] = "lookupErr") =>
                werr'[w] /\ sink' = sink
          /\ (pc[w] = "handleErr" /\ pc'[w] = "done"
                 /\ path[w] = "lookupErr") =>
                LET k == wkey[w]
                IN IF NumRequeues(k) < MaxRetries
                   THEN /\ failures'[k] = failures[k] + 1
                        /\ shuttingDown \/ k \in waiting'
                        /\ errorSink' = errorSink
                   ELSE /\ failures'[k] = 0
                        /\ waiting' = waiting
                        /\ errorSink' = errorSink + 1]_vars

\* a key whose lookups kept failing was requeued up to the ceiling and then
\* dropped, with nothing written
LookupFailureDropped ==
    \E w \in Workers :
        /\ pc[w] = "done" /\ path[w] = "lookupErr" /\ werr[w]
        /\ attempts[wkey[w]] = 0
        /\ failures[wkey[w]] = 0
        /\ errorSink = 1
        /\ sink = << >>

\* the Sync of key k has just been run by some worker
Synced(k) == \E w \in Workers : pc[w] = "handleErr" /\ wkey[w] = k

PendingKeySyncedUnlessCrashed ==
    \A k \in Keys :
        (Count(queue, k) = 1 /\ ~stopClosed)
            ~> (Synced(k) \/ stopClosed \/ crashed)

\* with a single worker, one key was retried up to the ceiling and dropped
\* and the line of the other key is in the file
PermanentFailureIsolated ==
    /\ \A w \in Workers : w > 1 => pc[w] = "off"
    /\ errorSink = 1
    /\ \E k \in FailingKeys : failures[k] = 0 /\ k \in DOMAIN cache
    /\ Len(sink) = 1
    /\ \E k \in Keys \ FailingKeys :
          k \in DOMAIN cache /\ sink[1] = Sprintf(cache[k])

\* C15: no notification given to the add, update or delete handler - a
\* delete given as a tombstone included - and no outcome of Sync or of the
\* retry handling takes the process to a crashed state.
NoProcessTermination == ~crashed

\* the only step that crashes the process is the delete handler's call on a
\* tombstone
CrashOnlyOnTombstone ==
    [][crashed' # crashed =>
          /\ infPc = "handler" /\ delta.type = "DELETE"
          /\ IsTombstone(delta.obj)]_vars

\* the three ways handleErr can leave the key of worker w
OutcomeForgotten(w) ==
    /\ ~werr[w]
    /\ failures'[wkey[w]] = 0
    /\ waiting' = waiting
    /\ errorSink' = errorSink

OutcomeRequeued(w) ==
    /\ werr[w] /\ NumRequeues(wkey[w]) < MaxRetries
    /\ failures'[wkey[w]] = failures[wkey[w]] + 1
    /\ shuttingDown \/ wkey[w] \in waiting'
    /\ errorSink' = errorSink

OutcomeDropped(w) ==
    /\ werr[w] /\ NumRequeues(wkey[w]) >= MaxRetries
    /\ failures'[wkey[w]] = 0
    /\ waiting' = waiting
    /\ errorSink' = errorSink + 1

OutcomesTaken(w) ==
    Cardinality({i \in 1..3 :
                    \/ i = 1 /\ OutcomeForgotten(w)
                    \/ i = 2 /\ OutcomeRequeued(w)
                    \/ i = 3 /\ OutcomeDropped(w)})

\* the steps of one delivery: Get, Sync, the outcome, Done
DeliverySteps(w) ==
    /\ (pc[w] = "get" /\ pc'[w] = "sync") =>
          wkey'[w] \in processing' /\ wkey'[w] \notin processing
    /\ (pc[w] = "sync" /\ pc'[w] # "sync") =>
          /\ pc'[w] = "handleErr"
          /\ failures' = failures /\ waiting' = waiting
          /\ errorSink' = errorSink
          /\ wkey[w] \in processing'
    /\ (pc[w] = "handleErr" /\ pc'[w] # "handleErr") =>
          /\ pc'[w] = "done"
          /\ OutcomesTaken(w) = 1
          /\ wkey[w] \in processing'
    /\ (pc[w] = "done" /\ pc'[w] # "done") =>
          /\ pc'[w] = "get"
          /\ failures' = failures /\ waiting' = waiting
          /\ errorSink' = errorSink
          /\ wkey[w] \notin processing'

\* C16: a delivered key goes through Sync, then exactly one of the outcomes
\* Forgotten, Requeued (failure with NumRequeues < MaxRetries) and Dropped
\* (failure otherwise), then Done; a key leaves processing only by that one
\* Done, so while a worker holds a key - requeued or not - the key is in
\* processing and not in the queue for another worker to get.
WorkerStateMachine ==
    /\ [](\A w \in Workers :
             Holding(w) =>
                 wkey[w] \in processing /\ Count(queue, wkey[w]) = 0)
    /\ [][/\ \A w \in Workers : DeliverySteps(w)
          /\ \A k \in processing \ processing' :
                \E w \in Workers :
                    pc[w] = "done" /\ wkey[w] = k /\ pc'[w] = "get"]_vars

\* the timer of a requeued key fired before the worker holding the key
\* released it, while another worker waits at an empty queue
RequeuedBeforeRelease ==
    \E w1 \in Workers, w2 \in Workers :
        /\ pc[w1] = "done" /\ werr[w1]
        /\ failures[wkey[w1]] >= 1
        /\ pendingAdds[wkey[w1]] = 0
        /\ wkey[w1] \in dirty /\ wkey[w1] \notin waiting
        /\ pc[w2] = "get" /\ queue = << >>

\* under fairness every delivery reaches its Done, unless a handler's panic
\* ends the process first
DeliveryEndsUnlessCrashed ==
    \A w \in Workers : Holding(w) ~> (pc[w] = "get" \/ crashed)

\* the informer's current step is the update handler's call
UpdateHandled ==
    infPc = "handler" /\ infPc' = "idle" /\ delta.type = "UPDATE"

\* the update changed the Source and the Reason of the object
BothChanged ==
    delta.old.Source # delta.obj.Source /\ delta.old.Reason # delta.obj.Reason

HandlerCalled ==
    infPc = "handler" /\ (infPc' = "idle" \/ crashed' # crashed)

\* the key of the object the handler is given
HandlerKey ==
    IF delta.type = "UPDATE"
    THEN MetaNamespaceKeyFunc(delta.old).key
    ELSE DeletionHandlingMetaNamespaceKeyFunc(delta.obj).key

\* C18: a handler call changes nothing but the pending set of the queue, to
\* which it adds at most the key of its object: the cache, the file, the
\* error sink, every worker's position (no Sync is run), the keys in
\* processing, the retry counters and the running backoff timers stay as
\* they are.
HandlersOnlyEnqueue ==
    [][HandlerCalled =>
          /\ cache' = cache
          /\ sink' = sink /\ errorSink' = errorSink
          /\ pc' = pc /\ wkey' = wkey /\ werr' = werr
          /\ processing' = processing
          /\ failures' = failures /\ waiting' = waiting
          /\ \/ queue' = queue /\ dirty' = dirty
             \/ /\ HandlerKey \notin dirty
                /\ dirty' = dirty \cup {HandlerKey}
                /\ queue' \in {queue, Append(queue, HandlerKey)}]_vars

\* a handler enqueued a key whose backoff timer is running: the key is in
\* the queue and its retry counter and timer are as the failure left them
HandlerAddDuringBackoff ==
    \E k \in Keys :
        /\ infPc = "idle" /\ seq = 2 /\ enqVer[k] = 2
        /\ failures[k] >= 1 /\ k \in waiting
        /\ Count(queue, k) = 1

\* C19: in every reachable state every key's NumRequeues is between 0 and
\* MaxRetries; the counter only grows by one, in the handleErr of the one
\* worker that holds the key, after a failed Sync and from a value below
\* MaxRetries.
RetryCounterBounded ==
    /\ [](\A k \in Keys : NumRequeues(k) \in 0..MaxRetries)
    /\ [][\A k \in Keys :
            failures'[k] > failures[k] =>
                /\ failures'[k] = failures[k] + 1
                /\ failures[k] < MaxRetries
                /\ Cardinality({w \in Workers :
                                   Holding(w) /\ wkey[w] = k}) = 1
                /\ \E w \in Workers :
                      /\ pc[w] = "handleErr" /\ pc'[w] = "done"
                      /\ wkey[w] = k /\ werr[w]]_vars

\* a key's counter stands at the ceiling while two workers run, a handler
\* has enqueued the key again and its backoff timer is running
CounterAtCeiling ==
    \E k \in Keys :
        /\ failures[k] = MaxRetries
        /\ k \in waiting /\ k \in dirty
        /\ pendingAdds[k] >= 1
        /\ \A w \in Workers : pc[w] # "off"

\* nothing is queued, held or waiting for a timer, and no key has a retry
\* history
Quiescent ==
    /\ queue = << >>
    /\ processing = {}
    /\ waiting = {}
    /\ \A k \in Keys : failures[k] = 0

\* no worker is holding the error of a failed Sync
NoSyncFailure == \A w \in Workers : ~werr[w]

\* C20: if from some point on every Sync succeeds and no shutdown is ever
\* signalled, then - the notifications being finitely many and the workers
\* scheduled fairly - the system eventually reaches quiescence and stays
\* there.
Quiescence ==
    (<>[]NoSyncFailure /\ []~stopClosed) => <>[]Quiescent

\* the same, for the behaviours in which no handler panics
QuiescenceUnlessCrashed ==
    (<>[]NoSyncFailure /\ []~stopClosed /\ []~crashed) => <>[]Quiescent

\* all notifications were handled, a line was written and the system is
\* quiescent with every started worker waiting in Get
QuiescentAfterWork ==
    /\ Quiescent /\ ~stopClosed /\ ~crashed
    /\ seq = MaxNotif /\ infPc = "idle"
    /\ Len(sink) >= 1
    /\ \A w \in Workers : pc[w] \in {"get", "off"}

====
